---- MODULE Spec2Model ----
(***************************************************************************)
(* Model of asab.raft: the JSON-RPC runtime over datagrams (rpc.py) and    *)
(* the Raft role machine (service.py).                                     *)
(*                                                                         *)
(* Two specifications share the definitions translated from the source:    *)
(*   SpecRaft  the role machines of a cluster, driven at their handler     *)
(*             interface: timers fire, and a datagram that is delivered    *)
(*             reaches the handler method of service.py directly;          *)
(*   SpecRpc   one node as it is wired in the source: every datagram goes  *)
(*             through RPC.on_recv, and acall / tick / finalize act on the *)
(*             outstanding-call register.                                  *)
(***************************************************************************)
EXTENDS Integers, FiniteSets, Sequences, TLC

\* Bound: the number of election timeouts that fire in one behaviour.
MaxElections == 2

\* Bound: the largest value the id counter IdSeq hands out.
MaxId == 3

\* Bound: the number of awaitable calls (ACall objects) made in one behaviour.
MaxCalls == 2

\* Bound: the loop's clock stops advancing at this time (seconds).
MaxTime == 3

\* Bound: the number of datagrams pending on a socket when it becomes readable.
MaxBatch == 1

\* Bound: the number of election timeouts that fire plus the number of nodes
\* that are shut down (finalize) in one behaviour of the cluster.
MaxEvents == 2

\* Python's None.
None == "None"

\* The nodes; a node's address and its ServerId are both its name.
Node == {"n1", "n2", "n3"}

\* The order of the configured peers (the order of the list RaftService.Peers).
PeerOrder == <<"n1", "n2", "n3">>

\* The nodes whose election timer expires within the bound. The nodes run the
\* same code, so with MaxElections = 2 every behaviour of the cluster is one of
\* these up to renaming the nodes.
Candidates == {"n1", "n2"}

\* The node whose election timer expires first in the cluster (again up to
\* renaming the nodes).
FirstCandidate == "n1"

\* The peer tables a node can be constructed with: alone, or the full cluster.
Configs == {"single", "cluster"}

VARIABLES
    raft,       \* per node: State, currentTerm, votedFor, Peers, the two timers
    msgs,       \* SpecRaft: the RPC calls and replies sent so far (a datagram may
                \* be lost, duplicated or reordered: it stays deliverable forever)
    config,     \* which peer table the nodes were constructed with
    elections,  \* the number of election timeouts that have fired
    IdSeq,          \* RPC.IdSeq: the next value of the counter
    RPCMethods,     \* RPC.RPCMethods: the method names that are bound
    ACallRegister,  \* RPC.ACallRegister: the request ids that are registered
    ACalls,         \* the ACall objects created so far, by request id (each is
                    \* held by its awaiter, and by the register while registered)
    now             \* Loop.time(), in seconds

raftVars == <<raft, msgs, config, elections>>
rpcVars == <<IdSeq, RPCMethods, ACallRegister, ACalls, now>>
vars == <<raft, msgs, config, elections, IdSeq, RPCMethods, ACallRegister, ACalls,
          now>>

----------------------------------------------------------------------------
(* service.py: Peer, RaftService.__init__ *)

\* Peer.__init__: a peer record with unknown id and no vote.
Peer(id) == [Id |-> id, VoteGranted |-> FALSE]

\* RaftService.__init__: the peer table, keyed by address; the local peer has
\* address None and id ServerId, the remote ones id "?".
InitPeers(n, cfg) ==
    [a \in {None} \cup (IF cfg = "cluster" THEN Node \ {n} ELSE {}) |->
        IF a = None THEN Peer(n) ELSE Peer("?")]

\* RaftService.__init__: State '?', PersistentState, timers not started.
\* Finalized records that the service container has called finalize.
InitRaft(n, cfg) ==
    [State |-> "?", currentTerm |-> 0, votedFor |-> None,
     Peers |-> InitPeers(n, cfg),
     ElectionTimer |-> FALSE, HeartBeatTimer |-> FALSE, Finalized |-> FALSE]

\* The context a handler runs in: the node n, its state s, the RPC calls it
\* made (out), the value it returned (ret), the exception it raised (exc) and
\* the role changes it logged (roles: <<from, to>> per "Entering ... state"),
\* and the numbers taken from RPC.IdSeq by calls that sent nothing (drawn).
Ctx(n) ==
    [n |-> n, s |-> raft[n], out |-> <<>>, ret |-> None, exc |-> None,
     roles |-> <<>>, drawn |-> 0]

RemoteAddrs(c) == DOMAIN c.s.Peers \ {None}

\* The remote peers among addrs, in the order of the list RaftService.Peers
PeerList(addrs) == SelectSeq(PeerOrder, LAMBDA a : a \in addrs)

Range(q) == {q[i] : i \in DOMAIN q}

\* RPC.call as used by the role machine: one request to peer_address.
Call(c, peer_address, method, term) ==
    [c EXCEPT !.out = Append(@,
        [kind |-> "call", method |-> method, term |-> term, id |-> c.n,
         flag |-> FALSE, src |-> c.n, dst |-> peer_address])]

----------------------------------------------------------------------------
(* rpc.py: values on the wire *)

\* JSON values. Python's None and JSON null are the same value, Null.
Null == [t |-> "null"]
JsonFalse == [t |-> "bool", b |-> FALSE]
JsonZero == [t |-> "number", n |-> 0]
JsonEmptyStr == [t |-> "string", s |-> ""]
JsonEmptyList == [t |-> "list"]
Str(s) == [t |-> "string", s |-> s]

\* The params of AppendEntries / RequestVote and the dict their handlers return
Params(term, id) == [t |-> "dict", term |-> term, id |-> id]
ReplyDict(term, flag, serverId) ==
    [t |-> "dict", term |-> term, flag |-> flag, serverId |-> serverId]

\* Mutant of RequestId: the counter's value is left out of the id.
RequestId_by_method(method, seq) == [method |-> method, seq |-> 0]

\* RPC.call: request_id = "{}:{}".format(method, next(self.IdSeq))
RequestId(method, seq) == [method |-> method, seq |-> seq]

\* RPCError.__init__: obj = {code, message} plus data when it is not None
RPCErrorObj(code, message, data) ==
    [t |-> "error", code |-> code, message |-> message, data |-> data]

\* The sentinels ACall.cancel and ACall.timeout store in Result
CancelledError == [t |-> "class", name |-> "CancelledError"]
TimeoutError == [t |-> "class", name |-> "TimeoutError"]

\* A datagram's content: not JSON at all (json = FALSE), or a JSON object and
\* what request_obj.get() returns for each key (Null when the key is absent).
Frame(jsonrpc, method, id, params, result, error) ==
    [json |-> TRUE, jsonrpc |-> jsonrpc, method |-> method, id |-> id,
     params |-> params, result |-> result, error |-> error]

NoId == RequestId(None, 0)
RequestFrame(id, method, params) == Frame("2.0", method, id, params, Null, Null)
ResultFrame(id, result) == Frame("2.0", None, id, Null, result, Null)
ErrorFrame(id, error) == Frame("2.0", None, id, Null, Null, error)
GarbageFrame == [Frame("?", None, NoId, Null, Null, Null) EXCEPT !.json = FALSE]
BadVersionFrame == Frame("1.0", "Ping", RequestId("Ping", 1), Null, Null, Null)
EmptyFrame == Frame("2.0", None, NoId, Null, Null, Null)

\* json.dumps of a JSON value: its text
Quote == "\""
json_dumps(v) ==
    CASE v.t = "null" -> "null"
      [] v.t = "bool" -> IF v.b THEN "true" ELSE "false"
      [] v.t = "number" -> IF v.n = 0 THEN "0" ELSE "1"
      [] v.t = "string" -> Quote \o v.s \o Quote
      [] v.t = "list" -> "[]"

\* json.loads of such a text
json_loads(text) ==
    CASE text = "null" -> Null
      [] text = "false" -> JsonFalse
      [] text = "true" -> [t |-> "bool", b |-> TRUE]
      [] text = "0" -> JsonZero
      [] text = "1" -> [t |-> "number", n |-> 1]
      [] text = "[]" -> JsonEmptyList
      [] OTHER -> Str(SubSeq(text, 2, Len(text) - 1))

\* What json.loads on the receiving side makes of the frame json.dumps wrote
\* on the sending side: the params, the result and the error's data are JSON
\* values that went through their text.
Wire(frame) ==
    [frame EXCEPT !.params = json_loads(json_dumps(@)),
                  !.result = json_loads(json_dumps(@)),
                  !.error = IF @ = Null THEN Null
                            ELSE [@ EXCEPT !.data = json_loads(json_dumps(@))]]

\* The listening sockets; the first one bound is the primary socket.
Sockets == {"primary", "secondary"}
PrimarySocket == "primary"

\* The node that SpecRpc follows, and an address that is in no peer table.
Local == "n1"
Stranger == "x"

NoACalls == [i \in {} |-> Null]

----------------------------------------------------------------------------
(* rpc.py: ACall *)

\* The default timeout of acall, in seconds
DefaultTimeout == 3

\* The timeout argument of acall: None (not given), or a number of seconds
NoTimeout == <<>>
Seconds(t) == <<t>>

\* ACall.__init__ (after rpc.call has made the request id)
NewACall(peer_address, timeout, time) ==
    [PeerAddress |-> peer_address, Result |-> Null, Error |-> Null,
     ReplyEvent |-> FALSE,
     TimeoutAt |-> time + (IF timeout = NoTimeout THEN DefaultTimeout
                           ELSE timeout[1])]

\* The three assertions of ACall.send and ACall.send_error
SendAsserts(a, peer_address) ==
    a.PeerAddress = peer_address /\ a.Result = Null /\ a.Error = Null

\* ACall.send; the object is unchanged when an assertion fails
acall_send(a, peer_address, result) ==
    IF SendAsserts(a, peer_address)
    THEN [a EXCEPT !.Result = result, !.ReplyEvent = TRUE] ELSE a

\* ACall.send_error
acall_send_error(a, peer_address, error) ==
    IF SendAsserts(a, peer_address)
    THEN [a EXCEPT !.Error = error, !.ReplyEvent = TRUE] ELSE a

\* ACall.cancel
acall_cancel(a) ==
    IF ~a.ReplyEvent THEN [a EXCEPT !.Result = CancelledError, !.ReplyEvent = TRUE]
    ELSE a

\* ACall.timeout
acall_timeout(a) ==
    IF ~a.ReplyEvent THEN [a EXCEPT !.Result = TimeoutError, !.ReplyEvent = TRUE]
    ELSE a

\* ACall.wait: what the awaiter gets once ReplyEvent is set
acall_wait(a) ==
    IF ~a.ReplyEvent THEN [outcome |-> "suspended", value |-> Null]
    ELSE IF a.Error # Null THEN [outcome |-> "RPCError", value |-> a.Error]
    ELSE IF a.Result = CancelledError THEN [outcome |-> "CancelledError", value |-> Null]
    ELSE IF a.Result = TimeoutError THEN [outcome |-> "TimeoutError", value |-> Null]
    ELSE [outcome |-> "return", value |-> a.Result]

----------------------------------------------------------------------------
(* rpc.py: RPC *)

\* The state a handler of the RPC object works on: the register and the ACall
\* objects, the service whose methods are bound (svc), the datagrams sent
\* (sock, to, frame), the exceptions raised, the number of datagrams taken
\* from the socket, and whether on_recv has returned.
RecvCtx ==
    [reg |-> ACallRegister, acalls |-> ACalls, svc |-> raft[Local],
     sent |-> <<>>, raised |-> <<>>, taken |-> 0, returned |-> FALSE]

\* Mutant of SendTo: the datagram goes out twice.
SendTo_twice(r, s, peer_address, frame) ==
    [r EXCEPT !.sent = @ \o << [sock |-> s, to |-> peer_address, frame |-> frame],
                                [sock |-> s, to |-> peer_address, frame |-> frame] >>]

SendTo(r, s, peer_address, frame) ==
    [r EXCEPT !.sent = Append(@, [sock |-> s, to |-> peer_address, frame |-> frame])]

\* Mutant of rpc_dispatch_method: Ping tests its params for truth, not for None.
rpc_dispatch_method_truthy(method, params) ==
    IF method = "Ping"
    THEN [exc |-> None, error |-> Null,
          result |-> IF params \in {Null, JsonFalse, JsonZero, JsonEmptyStr,
                                     JsonEmptyList}
                     THEN Str("Pong") ELSE params]
    ELSE IF method \in RPCMethods
    THEN [exc |-> "TypeError", error |-> Null, result |-> Null]
    ELSE [exc |-> "RPCError", result |-> Null,
          error |-> RPCErrorObj(-32601, "Method not found", Str(method))]

\* Mutant of rpc_dispatch_method: "Method not found" is raised without data.
rpc_dispatch_method_no_data(method, params) ==
    IF method = "Ping"
    THEN [exc |-> None, error |-> Null,
          result |-> IF params = Null THEN Str("Pong") ELSE params]
    ELSE IF method \in RPCMethods
    THEN [exc |-> "TypeError", error |-> Null, result |-> Null]
    ELSE [exc |-> "RPCError", result |-> Null,
          error |-> RPCErrorObj(-32601, "Method not found", Null)]

\* rpc_dispatch_method: Ping echoes; a bound method is called as
\* m(peer_address, params): the methods RPC.bind finds on the service are
\* append_entries_server(self, params) and request_vote_server(self, params),
\* so the call raises TypeError before the handler's body runs and the service
\* is left as it was; any other method name is "Method not found".
rpc_dispatch_method(method, params) ==
    IF method = "Ping"
    THEN [exc |-> None, error |-> Null,
          result |-> IF params = Null THEN Str("Pong") ELSE params]
    ELSE IF method \in RPCMethods
    THEN [exc |-> "TypeError", error |-> Null, result |-> Null]
    ELSE [exc |-> "RPCError", result |-> Null,
          error |-> RPCErrorObj(-32601, "Method not found", Str(method))]

\* Mutant of rpc_dispatch_result: the call is looked up among all the ACall
\* objects, also those no longer in the register.
rpc_dispatch_result_by_object(r, peer_address, result_id, result) ==
    IF result_id \notin DOMAIN r.acalls THEN r
    ELSE LET a == r.acalls[result_id]
             r1 == [r EXCEPT !.reg = @ \ {result_id}]
         IN  IF SendAsserts(a, peer_address)
             THEN [r1 EXCEPT !.acalls[result_id] = acall_send(a, peer_address, result)]
             ELSE [r1 EXCEPT !.raised = Append(@, "AssertionError")]

\* Mutant of rpc_dispatch_result: a failed assertion of ACall.send is reported
\* back to the peer as an error frame.
rpc_dispatch_result_replying(r, peer_address, result_id, result) ==
    IF result_id \notin r.reg THEN r
    ELSE LET a == r.acalls[result_id]
             r1 == [r EXCEPT !.reg = @ \ {result_id}]
         IN  IF SendAsserts(a, peer_address)
             THEN [r1 EXCEPT !.acalls[result_id] = acall_send(a, peer_address, result)]
             ELSE [r1 EXCEPT !.raised = Append(@, "AssertionError"),
                             !.sent = Append(@,
                                [sock |-> PrimarySocket, to |-> peer_address,
                                 frame |-> ErrorFrame(result_id,
                                    RPCErrorObj(-32603, "AssertionError", Null))])]

\* rpc_dispatch_result: pop the call; unknown id: log; else ACall.send
rpc_dispatch_result(r, peer_address, result_id, result) ==
    IF result_id \notin r.reg THEN r
    ELSE LET a == r.acalls[result_id]
             r1 == [r EXCEPT !.reg = @ \ {result_id}]
         IN  IF SendAsserts(a, peer_address)
             THEN [r1 EXCEPT !.acalls[result_id] = acall_send(a, peer_address, result)]
             ELSE [r1 EXCEPT !.raised = Append(@, "AssertionError")]

\* rpc_dispatch_error: pop the call; unknown id: log; else ACall.send_error
rpc_dispatch_error(r, peer_address, result_id, error) ==
    IF result_id \notin r.reg THEN r
    ELSE LET a == r.acalls[result_id]
             r1 == [r EXCEPT !.reg = @ \ {result_id}]
         IN  IF SendAsserts(a, peer_address)
             THEN [r1 EXCEPT !.acalls[result_id] =
                                acall_send_error(a, peer_address, error)]
             ELSE [r1 EXCEPT !.raised = Append(@, "AssertionError")]

\* One turn of the loop of on_recv, for the datagram d = [from, frame]
\* received on socket s.
RecvOne(r, s, d) ==
    LET f == d.frame
        r0 == [r EXCEPT !.taken = @ + 1]
    IN  IF ~f.json
        THEN \* json.loads raises; propagate_error is False: log and continue
             [r0 EXCEPT !.raised = Append(@, "ValueError")]
        ELSE IF f.jsonrpc # "2.0"
        THEN \* log and return
             [r0 EXCEPT !.returned = TRUE]
        ELSE IF f.method # None
        THEN LET x == rpc_dispatch_method(f.method, f.params)
             IN  IF x.exc = "RPCError"
                 THEN SendTo([r0 EXCEPT !.raised = Append(@, "RPCError")],
                             s, d.from, ErrorFrame(f.id, x.error))
                 ELSE IF x.exc # None
                 THEN SendTo([r0 EXCEPT !.raised = Append(@, x.exc)],
                             s, d.from,
                             ErrorFrame(f.id, RPCErrorObj(-32603, x.exc, Null)))
                 ELSE IF x.result # Null
                 THEN SendTo(r0, s, d.from, ResultFrame(f.id, x.result))
                 ELSE r0
        ELSE IF f.result # Null
        THEN rpc_dispatch_result(r0, d.from, f.id, f.result)
        ELSE IF f.error # Null
        THEN rpc_dispatch_error(r0, d.from, f.id, f.error)
        ELSE r0

\* on_recv(s): take datagrams until the socket would block, or until return
RECURSIVE on_recv(_, _, _)
on_recv(r, s, pending) ==
    IF pending = <<>> \/ r.returned THEN r
    ELSE on_recv(RecvOne(r, s, Head(pending)), s, Tail(pending))

\* RPC.acall up to the await: RPC.call sends the request on the primary socket
\* under the id made from seq, and ACall.__init__ registers the record.
rpc_acall(r, seq, peer_address, method, params, timeout, time) ==
    LET id == RequestId(method, seq)
        r1 == SendTo(r, PrimarySocket, peer_address,
                     RequestFrame(id, method, params))
    IN  [r1 EXCEPT !.reg = @ \cup {id},
                   !.acalls = [i \in DOMAIN @ \cup {id} |->
                                 IF i = id
                                 THEN NewACall(peer_address, timeout, time)
                                 ELSE @[i]]]

\* RPC._on_tick: every registered call with TimeoutAt <= now is popped and
\* timed out
on_tick(r, time) ==
    LET due == {id \in r.reg : r.acalls[id].TimeoutAt <= time}
    IN  [r EXCEPT !.reg = @ \ due,
                  !.acalls = [id \in DOMAIN @ |->
                                IF id \in due THEN acall_timeout(@[id]) ELSE @[id]]]

\* RPC.finalize: every registered call is cancelled
rpc_finalize(r) ==
    [r EXCEPT !.acalls = [id \in DOMAIN @ |->
                            IF id \in r.reg THEN acall_cancel(@[id]) ELSE @[id]]]

\* RPC.bind(service): the methods tagged by @RPCMethod
rpc_bind(methods) == methods \cup {"AppendEntries", "RequestVote"}

----------------------------------------------------------------------------
(* service.py: the role machine *)

\* enter_state_follower
enter_state_follower(c) ==
    [c EXCEPT !.roles = Append(@, <<c.s.State, "F">>),
              !.s.State = "F", !.s.HeartBeatTimer = FALSE, !.s.ElectionTimer = TRUE]

\* append_entries: assert(State == 'L'), then RPC.call(peer, "AppendEntries")
append_entries(c, peer_address) ==
    IF c.s.State # "L" THEN [c EXCEPT !.exc = "AssertionError"]
    ELSE Call(c, peer_address, "AppendEntries", c.s.currentTerm)

\* send_heartbeat: append_entries to every peer with an address
RECURSIVE SendHeartbeatTo(_, _)
SendHeartbeatTo(c, peers) ==
    IF peers = <<>> \/ c.exc # None THEN c
    ELSE SendHeartbeatTo(append_entries(c, Head(peers)), Tail(peers))

send_heartbeat(c) == SendHeartbeatTo(c, PeerList(RemoteAddrs(c)))

\* request_vote: RPC.call(peer.Address, "RequestVote")
request_vote(c, peer_address) ==
    Call(c, peer_address, "RequestVote", c.s.currentTerm)

\* Mutant of enter_state_leader: the election timer is left running.
enter_state_leader_keeps_election_timer(c) ==
    send_heartbeat([c EXCEPT !.roles = Append(@, <<c.s.State, "L">>),
                             !.s.State = "L", !.s.HeartBeatTimer = TRUE])

\* enter_state_leader
enter_state_leader(c) ==
    send_heartbeat([c EXCEPT !.roles = Append(@, <<c.s.State, "L">>),
                             !.s.State = "L", !.s.ElectionTimer = FALSE,
                             !.s.HeartBeatTimer = TRUE])

\* The tally of evalute_election
VotedYes(c) == Cardinality({a \in DOMAIN c.s.Peers : c.s.Peers[a].VoteGranted})
VotedNo(c) == Cardinality({a \in DOMAIN c.s.Peers : ~c.s.Peers[a].VoteGranted})

\* Mutant of evalute_election: the assertion on the role is missing.
evalute_election_unchecked(c) ==
    IF VotedYes(c) > VotedNo(c) THEN enter_state_leader(c) ELSE c

\* Mutant of evalute_election: the local peer's own vote is not enough.
evalute_election_needs_peer(c) ==
    IF c.s.State # "C" THEN [c EXCEPT !.exc = "AssertionError"]
    ELSE IF VotedYes(c) > VotedNo(c) /\ VotedYes(c) > 1 THEN enter_state_leader(c)
    ELSE c

\* evalute_election: assert(State == 'C'); Leader if voted_yes > voted_no
evalute_election(c) ==
    IF c.s.State # "C" THEN [c EXCEPT !.exc = "AssertionError"]
    ELSE IF VotedYes(c) > VotedNo(c) THEN enter_state_leader(c)
    ELSE c

\* The loop of enter_state_candidate over the peers
RECURSIVE RequestVotes(_, _)
RequestVotes(c, peers) ==
    IF peers = <<>> THEN c
    ELSE RequestVotes(request_vote(c, Head(peers)), Tail(peers))

\* enter_state_candidate
enter_state_candidate(c) ==
    LET c1 == [c EXCEPT !.roles = Append(@, <<c.s.State, "C">>),
                        !.s.State = "C",
                        !.s.currentTerm = @ + 1,
                        !.s.Peers = [a \in DOMAIN @ |->
                                       [@[a] EXCEPT !.VoteGranted = (a = None)]]]
        c2 == RequestVotes(c1, PeerList(RemoteAddrs(c1)))
        c3 == evalute_election(c2)
    IN  IF c3.exc = None /\ c3.s.State = "C"
        THEN [c3 EXCEPT !.s.ElectionTimer = TRUE, !.s.HeartBeatTimer = TRUE]
        ELSE c3

\* _on_election_timeout: the timer has fired (it is one-shot)
on_election_timeout(c) ==
    enter_state_candidate([c EXCEPT !.s.ElectionTimer = FALSE])

\* _on_heartbeat_timeout: the timer has fired; the handler starts it again
\* at its end. A Candidate calls request_vote for every peer of the list whose
\* VoteGranted is false, without looking at the address: the local peer comes
\* first in the list and has Address None, so if its flag is false
\* RPC.call(None, ..) raises TypeError in sendto before anything is sent, and
\* the handler ends there with the timer not started. RPC.call has drawn the
\* request's number from IdSeq by then (drawn).
on_heartbeat_timeout(c) ==
    LET c0 == [c EXCEPT !.s.HeartBeatTimer = FALSE]
        c1 == IF c0.s.State = "L" THEN send_heartbeat(c0)
              ELSE IF c0.s.State = "C"
              THEN IF ~c0.s.Peers[None].VoteGranted
                   THEN [c0 EXCEPT !.exc = "TypeError", !.drawn = 1]
                   ELSE RequestVotes(c0, PeerList({a \in RemoteAddrs(c0) :
                                                      ~c0.s.Peers[a].VoteGranted}))
              ELSE c0
    IN  IF c1.exc = None THEN [c1 EXCEPT !.s.HeartBeatTimer = TRUE] ELSE c1

\* Mutant of append_entries_server: the term is adopted without comparing it.
append_entries_server_any_term(c, term, leaderId) ==
    LET ret == [term |-> c.s.currentTerm, flag |-> TRUE, serverId |-> c.n]
        c1 == [c EXCEPT !.s.currentTerm = term]
        c2 == IF c1.s.State # "F" THEN enter_state_follower(c1) ELSE c1
    IN  [c2 EXCEPT !.s.ElectionTimer = TRUE, !.ret = ret]

\* Mutant of append_entries_server: a request of an old term is refused, but
\* the receiver still falls back to Follower and restarts its election timer.
append_entries_server_stale_resets(c, term, leaderId) ==
    LET ret == [term |-> c.s.currentTerm, flag |-> FALSE, serverId |-> c.n]
        c1 == [c EXCEPT !.s.currentTerm = IF term >= @ THEN term ELSE @]
        c2 == IF c1.s.State # "F" THEN enter_state_follower(c1) ELSE c1
    IN  [c2 EXCEPT !.s.ElectionTimer = TRUE,
                   !.ret = [ret EXCEPT !.flag = (term >= c.s.currentTerm)]]

\* append_entries_server(params): the @RPCMethod("AppendEntries") handler
append_entries_server(c, term, leaderId) ==
    LET ret == [term |-> c.s.currentTerm, flag |-> FALSE, serverId |-> c.n]
    IN  IF term >= c.s.currentTerm
        THEN LET c1 == [c EXCEPT !.s.currentTerm = term]
                 c2 == IF c1.s.State # "F" THEN enter_state_follower(c1) ELSE c1
             IN  [c2 EXCEPT !.s.ElectionTimer = TRUE,
                            !.ret = [ret EXCEPT !.flag = TRUE]]
        ELSE [c EXCEPT !.ret = ret]

\* The update of a peer's id in the two result handlers
LearnId(peer, serverId) ==
    IF peer.Id = "?" THEN [peer EXCEPT !.Id = serverId] ELSE peer

\* append_entries_result(peer_address, params)
append_entries_result(c, peer_address, serverId) ==
    IF peer_address \in RemoteAddrs(c)
    THEN [c EXCEPT !.s.Peers[peer_address] = LearnId(@, serverId)]
    ELSE c

\* Mutant of request_vote_result: only a reply of a higher term is ignored.
request_vote_result_older_term(c, peer_address, term, voteGranted, serverId) ==
    IF term > c.s.currentTerm THEN c
    ELSE IF peer_address \notin RemoteAddrs(c) THEN c
    ELSE LET c1 == [c EXCEPT !.s.Peers[peer_address] = LearnId(@, serverId)]
         IN  IF voteGranted /\ ~c1.s.Peers[peer_address].VoteGranted
             THEN evalute_election(
                      [c1 EXCEPT !.s.Peers[peer_address].VoteGranted = TRUE])
             ELSE c1

\* Mutant of request_vote_result: only a reply of a lower term is ignored.
request_vote_result_newer_term(c, peer_address, term, voteGranted, serverId) ==
    IF term < c.s.currentTerm THEN c
    ELSE IF peer_address \notin RemoteAddrs(c) THEN c
    ELSE LET c1 == [c EXCEPT !.s.Peers[peer_address] = LearnId(@, serverId)]
         IN  IF voteGranted /\ ~c1.s.Peers[peer_address].VoteGranted
             THEN evalute_election(
                      [c1 EXCEPT !.s.Peers[peer_address].VoteGranted = TRUE])
             ELSE c1

\* request_vote_result(peer_address, params)
request_vote_result(c, peer_address, term, voteGranted, serverId) ==
    IF term < c.s.currentTerm \/ term > c.s.currentTerm THEN c
    ELSE IF peer_address \notin RemoteAddrs(c) THEN c
    ELSE LET c1 == [c EXCEPT !.s.Peers[peer_address] = LearnId(@, serverId)]
         IN  IF voteGranted /\ ~c1.s.Peers[peer_address].VoteGranted
             THEN evalute_election(
                      [c1 EXCEPT !.s.Peers[peer_address].VoteGranted = TRUE])
             ELSE c1

\* request_vote_server(params): the @RPCMethod("RequestVote") handler
request_vote_server(c, term, candidateId) ==
    LET ret == [term |-> term, flag |-> FALSE, serverId |-> c.n]
    IN  IF term < c.s.currentTerm THEN [c EXCEPT !.ret = ret]
        ELSE IF c.s.votedFor # None /\ c.s.votedFor # candidateId
        THEN [c EXCEPT !.ret = ret]
        ELSE IF c.s.votedFor = None \/ c.s.votedFor # candidateId
        THEN LET c1 == [c EXCEPT !.s.votedFor = candidateId,
                                 !.ret = [ret EXCEPT !.flag = TRUE]]
             IN  IF c1.s.State = "C" THEN enter_state_follower(c1) ELSE c1
        ELSE [c EXCEPT !.ret = ret]

\* RaftService.finalize: both timers are stopped
service_finalize(c) ==
    [c EXCEPT !.s.ElectionTimer = FALSE, !.s.HeartBeatTimer = FALSE,
              !.s.Finalized = TRUE]

----------------------------------------------------------------------------
(* SpecRaft: the cluster, handlers reached directly *)

\* The reply a handler's return value makes, sent back to the caller
Reply(m, ret) ==
    [kind |-> "result", method |-> m.method, term |-> ret.term, id |-> ret.serverId,
     flag |-> ret.flag, src |-> m.dst, dst |-> m.src]

\* A handler has run on node c.n: its state and its calls take effect
Commit(c) ==
    /\ raft' = [raft EXCEPT ![c.n] = c.s]
    /\ msgs' = msgs \cup Range(c.out)
    /\ UNCHANGED <<config, elections>>
    /\ UNCHANGED rpcVars

CommitReply(c, m) ==
    /\ raft' = [raft EXCEPT ![c.n] = c.s]
    /\ msgs' = msgs \cup Range(c.out) \cup {Reply(m, c.ret)}
    /\ UNCHANGED <<config, elections>>
    /\ UNCHANGED rpcVars

\* The state after RaftService.__init__ (which constructs the RPC object)
Init ==
    /\ config \in Configs
    /\ raft = [n \in Node |-> InitRaft(n, config)]
    /\ msgs = {}
    /\ elections = 0
    /\ IdSeq = 1
    /\ RPCMethods = {}
    /\ ACallRegister = {}
    /\ ACalls = NoACalls
    /\ now = 0

\* RaftService.initialize
Initialize(n) ==
    /\ raft[n].State = "?"
    /\ Commit(enter_state_follower(Ctx(n)))

\* The number of nodes the service container has shut down
Shutdowns == Cardinality({m \in Node : raft[m].Finalized})

ElectionTimeout(n) ==
    /\ raft[n].ElectionTimer
    /\ elections < MaxElections
    /\ elections + Shutdowns < MaxEvents
    /\ config = "cluster" => n \in Candidates
    /\ (config = "cluster" /\ elections = 0) => n = FirstCandidate
    /\ LET c == on_election_timeout(Ctx(n))
       IN  /\ raft' = [raft EXCEPT ![n] = c.s]
           /\ msgs' = msgs \cup Range(c.out)
    /\ elections' = elections + 1
    /\ UNCHANGED config
    /\ UNCHANGED rpcVars

HeartbeatTimeout(n) ==
    /\ raft[n].HeartBeatTimer
    /\ Commit(on_heartbeat_timeout(Ctx(n)))

\* RaftService.finalize, called by the service container at shutdown, on any
\* node that has been initialized (a second time on the same node as well)
Finalize(n) ==
    /\ raft[n].State # "?"
    /\ raft[n].Finalized \/ elections + Shutdowns < MaxEvents
    /\ Commit(service_finalize(Ctx(n)))

RecvAppendEntries(n, m) ==
    /\ m.kind = "call" /\ m.method = "AppendEntries" /\ m.dst = n
    /\ CommitReply(append_entries_server(Ctx(n), m.term, m.id), m)

RecvRequestVote(n, m) ==
    /\ m.kind = "call" /\ m.method = "RequestVote" /\ m.dst = n
    /\ CommitReply(request_vote_server(Ctx(n), m.term, m.id), m)

RecvAppendEntriesResult(n, m) ==
    /\ m.kind = "result" /\ m.method = "AppendEntries" /\ m.dst = n
    /\ Commit(append_entries_result(Ctx(n), m.src, m.id))

RecvRequestVoteResult(n, m) ==
    /\ m.kind = "result" /\ m.method = "RequestVote" /\ m.dst = n
    /\ Commit(request_vote_result(Ctx(n), m.src, m.term, m.flag, m.id))

NextRaft ==
    \/ \E n \in Node : Initialize(n)
    \/ \E n \in Node : ElectionTimeout(n)
    \/ \E n \in Node : HeartbeatTimeout(n)
    \/ \E n \in Node : Finalize(n)
    \/ \E n \in Node, m \in msgs : RecvAppendEntries(n, m)
    \/ \E n \in Node, m \in msgs : RecvRequestVote(n, m)
    \/ \E n \in Node, m \in msgs : RecvAppendEntriesResult(n, m)
    \/ \E n \in Node, m \in msgs : RecvRequestVoteResult(n, m)

SpecRaft == Init /\ [][NextRaft]_vars

----------------------------------------------------------------------------
(* SpecRpc: the node Local as it is wired: datagrams go through RPC.on_recv *)

\* The datagrams RPC.call sends for the calls a handler of the role machine
\* made: numbered from IdSeq, each on the primary socket.
CallFrames(out, seq) ==
    [i \in DOMAIN out |->
        [sock |-> PrimarySocket, to |-> out[i].dst,
         frame |-> RequestFrame(RequestId(out[i].method, seq + i - 1),
                                out[i].method, Params(out[i].term, out[i].id))]]

\* A callback of the role machine has run on Local; its calls went out as
\* CallFrames(c.out, IdSeq), and a call that raised in sendto has used up a
\* number of IdSeq as well
LocalStep(c) ==
    /\ IdSeq + Len(c.out) + c.drawn - 1 <= MaxId
    /\ raft' = [raft EXCEPT ![Local] = c.s]
    /\ IdSeq' = IdSeq + Len(c.out) + c.drawn
    /\ UNCHANGED <<msgs, config, RPCMethods, ACallRegister, ACalls, now>>

\* RaftService.initialize
RpcInitialize ==
    /\ raft[Local].State = "?"
    /\ LocalStep(enter_state_follower(Ctx(Local)))
    /\ UNCHANGED elections

RpcElectionTimeout ==
    /\ raft[Local].ElectionTimer
    /\ elections < MaxElections
    /\ LocalStep(on_election_timeout(Ctx(Local)))
    /\ elections' = elections + 1

RpcHeartbeatTimeout ==
    /\ raft[Local].HeartBeatTimer
    /\ LocalStep(on_heartbeat_timeout(Ctx(Local)))
    /\ UNCHANGED elections

\* RaftService.finalize
ServiceFinalize ==
    /\ raft[Local].State # "?"
    /\ LocalStep(service_finalize(Ctx(Local)))
    /\ UNCHANGED elections

\* RPC.bind(service)
Bind ==
    /\ RPCMethods' = rpc_bind(RPCMethods)
    /\ UNCHANGED <<raftVars, IdSeq, ACallRegister, ACalls, now>>

\* The request datagram of acall: RPC.call sends it on the primary socket
ACallFrame(peer_address, method, params) ==
    [sock |-> PrimarySocket, to |-> peer_address,
     frame |-> RequestFrame(RequestId(method, IdSeq), method, params)]

\* RPC.acall(peer_address, method, params, timeout=timeout), up to the await
ACall(peer_address, method, params, timeout) ==
    LET id == RequestId(method, IdSeq)
        a == NewACall(peer_address, timeout, now)
    IN  /\ Cardinality(DOMAIN ACalls) < MaxCalls
        /\ IdSeq <= MaxId
        /\ a.TimeoutAt <= MaxTime
        /\ IdSeq' = IdSeq + 1
        /\ ACalls' = [i \in DOMAIN ACalls \cup {id} |->
                        IF i = id THEN a ELSE ACalls[i]]
        /\ ACallRegister' = ACallRegister \cup {id}
        /\ UNCHANGED <<raftVars, RPCMethods, now>>

\* The loop's clock advances
AdvanceTime ==
    /\ now < MaxTime
    /\ now' = now + 1
    /\ UNCHANGED <<raftVars, IdSeq, RPCMethods, ACallRegister, ACalls>>

\* A handler of the RPC object has run
RpcStep(r) ==
    /\ ACallRegister' = r.reg
    /\ ACalls' = r.acalls
    /\ raft' = [raft EXCEPT ![Local] = r.svc]
    /\ UNCHANGED <<msgs, config, elections, IdSeq, RPCMethods, now>>

\* "Application.tick!" is published
Tick == RpcStep(on_tick(RecvCtx, now))

\* RPC.finalize
RpcFinalize == RpcStep(rpc_finalize(RecvCtx))

\* The datagrams the peers may have sent to Local, each [from, frame]
UnknownId == RequestId("Ping", 0)
PeerRequestId(method) == RequestId(method, 1)
Dgram(from, frame) == [from |-> from, frame |-> frame]
RequestFrom(from, method, params) ==
    Dgram(from, RequestFrame(PeerRequestId(method), method, params))
MethodNotFound(method) == RPCErrorObj(-32601, "Method not found", Str(method))

SeqOf(S) ==
    LET RECURSIVE ToSeq(_)
        ToSeq(T) == IF T = {} THEN <<>>
                    ELSE LET x == CHOOSE y \in T : TRUE
                         IN  <<x>> \o ToSeq(T \ {x})
    IN  ToSeq(S)

Datagrams ==
    LET term == raft[Local].currentTerm
        ids == SeqOf(ACallRegister)
    IN  << RequestFrom("n2", "Ping", Null),
           RequestFrom("n2", "Ping", Str("v")),
           RequestFrom("n2", "Nope", Null),
           RequestFrom("n2", "AppendEntries", Params(term, "n2")),
           RequestFrom("n2", "AppendEntries", Params(term + 1, "n2")),
           RequestFrom("n2", "RequestVote", Params(term, "n2")),
           Dgram("n2", ResultFrame(RequestId("RequestVote", 1),
                                   ReplyDict(term, TRUE, "n2"))),
           Dgram("n2", ResultFrame(UnknownId, Str("v"))),
           Dgram("n2", ErrorFrame(UnknownId, MethodNotFound("Nope"))),
           Dgram("n2", GarbageFrame),
           Dgram("n2", BadVersionFrame),
           Dgram("n2", EmptyFrame) >>
        \o [i \in DOMAIN ids |-> Dgram("n2", ResultFrame(ids[i], Str("v")))]
        \o [i \in DOMAIN ids |-> Dgram(Stranger, ResultFrame(ids[i], Str("v")))]
        \o [i \in DOMAIN ids |-> Dgram("n2", ErrorFrame(ids[i], MethodNotFound("Nope")))]

\* The datagrams pending on a socket when it becomes readable: up to MaxBatch
Batches ==
    LET D == Datagrams
    IN  UNION {[1..k -> DOMAIN D] : k \in 1..MaxBatch}

BatchOf(b) == [i \in DOMAIN b |-> Datagrams[b[i]]]

\* Socket s is readable: RPC.on_recv(s)
OnRecv(s, pending) == RpcStep(on_recv(RecvCtx, s, pending))

NextRpc ==
    \/ RpcInitialize
    \/ RpcElectionTimeout
    \/ RpcHeartbeatTimeout
    \/ ServiceFinalize
    \/ Bind
    \/ \E method \in {"Ping", "Nope"}, params \in {Null, Str("v")},
          timeout \in {NoTimeout, Seconds(1)} : ACall("n2", method, params, timeout)
    \/ AdvanceTime
    \/ Tick
    \/ RpcFinalize
    \/ \E s \in Sockets, b \in Batches : OnRecv(s, BatchOf(b))

SpecRpc == Init /\ [][NextRpc]_vars

\* The tick bus keeps publishing and the clock keeps advancing.
SpecRpcFair == SpecRpc /\ WF_vars(Tick) /\ WF_vars(AdvanceTime)

----------------------------------------------------------------------------
(* Claims on the role machine, checked under SpecRaft *)

IsCall(m, method, n) == m.kind = "call" /\ m.method = method /\ m.dst = n
IsResult(m, method, n) == m.kind = "result" /\ m.method = method /\ m.dst = n

\* The role changes of every handler run that the current state allows on
\* node n: the timer callbacks of the armed timers, initialize, and the
\* handlers of the datagrams sent to n.
RoleChanges(n) ==
    (IF raft[n].ElectionTimer THEN {on_election_timeout(Ctx(n)).roles} ELSE {})
    \cup (IF raft[n].HeartBeatTimer THEN {on_heartbeat_timeout(Ctx(n)).roles} ELSE {})
    \cup (IF raft[n].State = "?" THEN {enter_state_follower(Ctx(n)).roles} ELSE {})
    \cup {append_entries_server(Ctx(n), m.term, m.id).roles :
             m \in {x \in msgs : IsCall(x, "AppendEntries", n)}}
    \cup {request_vote_server(Ctx(n), m.term, m.id).roles :
             m \in {x \in msgs : IsCall(x, "RequestVote", n)}}
    \cup {append_entries_result(Ctx(n), m.src, m.id).roles :
             m \in {x \in msgs : IsResult(x, "AppendEntries", n)}}
    \cup {request_vote_result(Ctx(n), m.src, m.term, m.flag, m.id).roles :
             m \in {x \in msgs : IsResult(x, "RequestVote", n)}}

\* C1: currentTerm never decreases: in every step (election timeout, heartbeat
\* expiry, inbound AppendEntries/RequestVote request, inbound reply) the
\* currentTerm of every node after the step is >= its value before.
C1_TermNeverDecreases ==
    [][\A n \in Node : raft'[n].currentTerm >= raft[n].currentTerm]_vars

\* C1 witness: a node that never started an election holds a term above 0 (it
\* adopted the term of an AppendEntries) while a candidate counted up to it.
C1_Witness ==
    /\ config = "cluster"
    /\ \E n \in Node \ Candidates : raft[n].currentTerm = MaxElections
    /\ \E n \in Candidates : raft[n].currentTerm = MaxElections

\* C2: election safety in the three-node cluster: never two nodes that are
\* both Leader with the same currentTerm.
C2_ElectionSafety ==
    config = "cluster" =>
        \A a, b \in Node :
            (a # b /\ raft[a].State = "L" /\ raft[b].State = "L")
                => raft[a].currentTerm # raft[b].currentTerm

\* The transition graph of the roles: Follower from any role, Candidate from
\* Follower or Candidate, Leader from Candidate.
RoleChangeAllowed(from, to) ==
    \/ to = "F"
    \/ to = "C" /\ from \in {"F", "C"}
    \/ to = "L" /\ from = "C"

\* C6: every role change a handler makes follows the transition graph; in
\* particular none goes from Unknown or Follower to Leader, or from Leader to
\* Candidate. Stated on each assignment of State that a handler run makes.
C6_RoleTransitions ==
    \A n \in Node : \A roles \in RoleChanges(n) :
        \A i \in DOMAIN roles : RoleChangeAllowed(roles[i][1], roles[i][2])

\* C6 witness: in the cluster a node is Leader (it was Candidate and won), and
\* another one, which was Candidate, is Follower again.
C6_Witness ==
    /\ config = "cluster"
    /\ \E a, b \in Candidates :
          /\ raft[a].State = "L"
          /\ raft[b].State = "F" /\ raft[b].currentTerm > 0 /\ raft[b].votedFor # None
          /\ raft[b].Peers[None].VoteGranted

\* C8: RequestVote is idempotent within a term: once a node has granted its
\* vote to X, a repeated RequestVote from X with a term not below currentTerm
\* is answered voteGranted=true, and a RequestVote from another candidate Y is
\* answered voteGranted=false with votedFor unchanged.
C8_RequestVoteIdempotent ==
    \A n \in Node : \A m \in {x \in msgs : IsCall(x, "RequestVote", n)} :
        LET c == request_vote_server(Ctx(n), m.term, m.id)
        IN  raft[n].votedFor # None =>
              /\ (raft[n].votedFor = m.id /\ m.term >= raft[n].currentTerm)
                    => c.ret.flag = TRUE
              /\ raft[n].votedFor # m.id
                    => (c.ret.flag = FALSE /\ c.s.votedFor = raft[n].votedFor)

\* C9: votedFor is cleared on term change: after a step that changes a node's
\* currentTerm, its votedFor holds no candidate id recorded before the step.
C9_VotedForCleared ==
    [][\A n \in Node :
         raft'[n].currentTerm # raft[n].currentTerm
            => (raft'[n].votedFor = None \/ raft[n].votedFor = None)]_vars

\* C12: a single-node cluster goes Follower -> Candidate -> Leader inside its
\* first election timeout, with currentTerm raised by exactly 1 and no call
\* made (no datagram sent); and a single node that is Leader stays Leader.
C12_SingleNodeElection ==
    /\ [](config = "single" =>
            \A n \in Node :
                (raft[n].State = "F" /\ raft[n].ElectionTimer) =>
                    LET c == on_election_timeout(Ctx(n))
                    IN  /\ c.roles = << <<"F", "C">>, <<"C", "L">> >>
                        /\ c.s.State = "L"
                        /\ c.s.currentTerm = raft[n].currentTerm + 1
                        /\ c.out = <<>>
                        /\ c.exc = None)
    /\ [][config = "single" =>
            \A n \in Node : raft[n].State = "L" => raft'[n].State = "L"]_vars

\* C12 witness: a single node is Leader of term 1 with its heartbeat timer
\* armed, nothing was ever sent, and another single node is still a Follower
\* waiting for its first election timeout.
C12_Witness ==
    /\ config = "single" /\ msgs = {}
    /\ \E n \in Node : raft[n].State = "L" /\ raft[n].currentTerm = 1
                          /\ raft[n].HeartBeatTimer
    /\ \E n \in Node : raft[n].State = "F" /\ raft[n].ElectionTimer

\* The timers a role requires
TimersMatchRole(s) ==
    /\ s.State = "L" => (~s.ElectionTimer /\ s.HeartBeatTimer)
    /\ s.State = "F" => (~s.HeartBeatTimer /\ s.ElectionTimer)

\* The AppendEntries requests sent to node n whose term is below its currentTerm
StaleAppendEntries(n) ==
    {m \in msgs : IsCall(m, "AppendEntries", n) /\ m.term < raft[n].currentTerm}

\* C11: an AppendEntries request whose term is lower than the receiver's
\* currentTerm is answered success=false with term = the receiver's
\* currentTerm, and the handler changes nothing: role, currentTerm, votedFor,
\* peer table and both timers are as before, and it sends nothing itself.
C11_StaleAppendEntriesRefused ==
    \A n \in Node : \A m \in StaleAppendEntries(n) :
        LET c == append_entries_server(Ctx(n), m.term, m.id)
        IN  /\ c.ret.flag = FALSE
            /\ c.ret.term = raft[n].currentTerm
            /\ c.s = raft[n]
            /\ c.out = <<>>
            /\ c.exc = None

\* C11 witness: a stale AppendEntries is deliverable to a Leader (heartbeat
\* timer armed) and to a Candidate or Follower whose election timer is armed.
C11_Witness ==
    /\ \E n \in Node : raft[n].State = "L" /\ StaleAppendEntries(n) # {}
    /\ \E n \in Node : raft[n].State \in {"C", "F"} /\ raft[n].ElectionTimer
                          /\ StaleAppendEntries(n) # {}

\* The tally of evalute_election on the peer table of the node state s
TallyWins(s) ==
    Cardinality({a \in DOMAIN s.Peers : s.Peers[a].VoteGranted})
        > Cardinality({a \in DOMAIN s.Peers : ~s.Peers[a].VoteGranted})

\* Every remote flag that is true in the node state s of node n was set by a
\* granting RequestVote reply from that peer carrying s.currentTerm (such a
\* reply answers a request n sent after it last became Candidate).
GrantsJustified(n, s) ==
    \A a \in DOMAIN s.Peers \ {None} :
        s.Peers[a].VoteGranted =>
            \E m \in msgs : /\ IsResult(m, "RequestVote", n) /\ m.src = a
                             /\ m.flag /\ m.term = s.currentTerm
                             /\ \E q \in msgs : /\ q.kind = "call" /\ q.src = n
                                                 /\ q.method = "RequestVote"
                                                 /\ q.dst = a /\ q.term = m.term

\* C21: a node enters the Leader role only in a step after which the peers
\* with VoteGranted true (the local one included) strictly outnumber those
\* with VoteGranted false, and every remote flag counted as true was set by a
\* granting RequestVote reply carrying the node's currentTerm; the same holds
\* of the flags of every Candidate, before the tally that may make it Leader.
C21_LeaderByMajority ==
    /\ [](\A n \in Node : raft[n].State = "C" => GrantsJustified(n, raft[n]))
    /\ [][\A n \in Node :
            (raft[n].State # "L" /\ raft'[n].State = "L") =>
                /\ TallyWins(raft'[n])
                /\ raft'[n].Peers[None].VoteGranted
                /\ GrantsJustified(n, raft'[n])]_vars

\* C21 witness: a Leader of the cluster in its second candidacy (term 2) that
\* won with one remote vote out of two, while a granting reply of its first
\* candidacy is still deliverable.
C21_Witness ==
    \E n \in Node :
        /\ config = "cluster" /\ raft[n].State = "L" /\ raft[n].currentTerm = 2
        /\ \E a, b \in DOMAIN raft[n].Peers \ {None} :
              raft[n].Peers[a].VoteGranted /\ ~raft[n].Peers[b].VoteGranted
        /\ \E m \in msgs : IsResult(m, "RequestVote", n) /\ m.flag /\ m.term = 1

\* C22: the assertion State == 'C' of evalute_election never fails: handling
\* any RequestVote reply that is deliverable to a node, in whatever role the
\* node is by then, raises nothing.
C22_TallyOnlyAsCandidate ==
    \A n \in Node : \A m \in {x \in msgs : IsResult(x, "RequestVote", n)} :
        request_vote_result(Ctx(n), m.src, m.term, m.flag, m.id).exc = None

\* A ServerId ("<hostname>:<port>") no node of the cluster started with: the
\* one a peer reports after it came back at its address under another host
\* name.
Renamed == "n0"

\* The serverId a reply from the peer at address a may carry
ServerIds(a) == {a, Renamed}

\* C24: after an AppendEntries reply, or a RequestVote reply of the current
\* term, from a known peer address has been handled, that peer's recorded id
\* equals the reply's serverId, whether the recorded id was "?" or another id.
C24_PeerIdFollowsReply ==
    \A n \in Node : \A a \in DOMAIN raft[n].Peers \ {None} :
        \A serverId \in ServerIds(a) :
            /\ append_entries_result(Ctx(n), a, serverId).s.Peers[a].Id = serverId
            /\ \A flag \in BOOLEAN :
                  request_vote_result(Ctx(n), a, raft[n].currentTerm, flag,
                                      serverId).s.Peers[a].Id = serverId

\* The terms a RequestVote reply may carry
ReplyTerms == 0..(MaxElections + 1)

\* C25: a RequestVote reply whose term is lower or higher than the receiver's
\* currentTerm is ignored by the handler, whatever its sender, voteGranted and
\* serverId: role, currentTerm, votedFor, every peer's id and VoteGranted
\* flag and both timers are unchanged, nothing is sent and nothing is raised.
C25_OtherTermVoteReplyIgnored ==
    \A n \in Node, a \in Node \cup {Stranger}, flag \in BOOLEAN :
        \A term \in ReplyTerms \ {raft[n].currentTerm} :
            \A serverId \in ServerIds(a) :
                LET c == request_vote_result(Ctx(n), a, term, flag, serverId)
                IN  /\ c.s = raft[n]
                    /\ c.out = <<>>
                    /\ c.roles = <<>>
                    /\ c.exc = None

\* C25 witness: a Candidate in its second candidacy, to which a granting reply
\* of its first candidacy is still deliverable from a peer whose flag is false
\* and whose id is still unknown.
C25_Witness ==
    \E n \in Node : \E m \in msgs :
        /\ raft[n].State = "C"
        /\ IsResult(m, "RequestVote", n) /\ m.flag
        /\ m.term < raft[n].currentTerm
        /\ ~raft[n].Peers[m.src].VoteGranted
        /\ raft[n].Peers[m.src].Id = "?"

----------------------------------------------------------------------------
(* Claims on the RPC runtime, checked under SpecRpc *)

\* The ids acall can hand out within the bounds
AllIds == {RequestId(m, k) : m \in {"Ping", "Nope"}, k \in 1..(MaxId + 1)}

Registered(id) == id \in ACallRegister
Completed(id) == id \in DOMAIN ACalls /\ ACalls[id].ReplyEvent

\* C3: every record in the outstanding-call register is pending: a record
\* completed by a result, an error, a timeout or a cancellation is absent.
C3_RegisterHoldsPending ==
    \A id \in ACallRegister : ~ACalls[id].ReplyEvent

\* C4: every awaitable call that has been registered is eventually completed
\* and its awaiter resumed, while ticks keep being delivered, whatever
\* datagrams arrive.
C4_EveryCallCompletes ==
    \A id \in AllIds : (id \in DOMAIN ACalls) ~> Completed(id)

\* C5: once finalize has cancelled a call, a result frame that carries its id
\* is dropped as an unknown id: no assertion is tripped, the record is not
\* reached (the register does not change) and the outcome stays 'cancelled'.
C5_LateReplyDropped ==
    \A id \in DOMAIN ACalls :
        ACalls[id].Result = CancelledError =>
            \A s \in Sockets :
                LET d == Dgram(ACalls[id].PeerAddress, ResultFrame(id, Str("v")))
                    r == on_recv(RecvCtx, s, <<d>>)
                IN  /\ r.raised = <<>>
                    /\ r.reg = ACallRegister
                    /\ acall_wait(r.acalls[id]).outcome = "CancelledError"

\* C7: when a RequestVote reply with voteGranted=true and the candidate's
\* currentTerm is delivered to a Candidate of the cluster, the replying peer's
\* VoteGranted flag is true afterwards, and a Candidate that has a strict
\* majority with it is Leader.
C7_GrantingReplyCounts ==
    (config = "cluster" /\ raft[Local].State = "C") =>
        \A s \in Sockets, k \in 1..MaxId :
            LET d == Dgram("n2", ResultFrame(RequestId("RequestVote", k),
                             ReplyDict(raft[Local].currentTerm, TRUE, "n2")))
                r == on_recv(RecvCtx, s, <<d>>)
            IN  /\ r.svc.Peers["n2"].VoteGranted
                /\ r.svc.State = "L"

\* C10: an AppendEntries request with term >= currentTerm, dispatched through
\* on_recv to a node in any role, leaves the node Follower with currentTerm
\* equal to the request's term and the election timer running, and the one
\* datagram sent back to the sender is a result frame with success=true
\* (stated for a node whose AppendEntries handler has been bound).
C10_AppendEntriesAccepted ==
    "AppendEntries" \in RPCMethods =>
      \A s \in Sockets, term \in raft[Local].currentTerm..MaxElections :
        LET d == RequestFrom("n2", "AppendEntries", Params(term, "n2"))
            r == on_recv(RecvCtx, s, <<d>>)
        IN  /\ r.svc.State = "F"
            /\ r.svc.currentTerm = term
            /\ r.svc.ElectionTimer
            /\ Len(r.sent) = 1
            /\ r.sent[1].to = "n2"
            /\ r.sent[1].frame.error = Null
            /\ r.sent[1].frame.result.t = "dict"
            /\ r.sent[1].frame.result.flag = TRUE

\* The ids a result frame can carry: those acall can hand out, those call
\* hands out for the role machine, and one that was never issued
ResultIds ==
    AllIds \cup {UnknownId}
           \cup {RequestId(m, k) : m \in {"RequestVote", "AppendEntries"},
                                   k \in 1..MaxId}

\* The values a result frame can carry
ResultValues ==
    {Str("v"), JsonFalse, ReplyDict(raft[Local].currentTerm, TRUE, "n2")}

\* C14: a result frame whose id is not in the outstanding-call register
\* changes no state: the register, the call records, role, currentTerm,
\* votedFor, peer table and timers are unchanged, no datagram is sent, and
\* nothing is raised.
C14_UnknownResultIgnored ==
    \A s \in Sockets, from \in {"n2", Stranger}, v \in ResultValues :
        \A id \in ResultIds \ ACallRegister :
            LET r == on_recv(RecvCtx, s, <<Dgram(from, ResultFrame(id, v))>>)
            IN  /\ r.reg = ACallRegister
                /\ r.acalls = ACalls
                /\ r.svc = raft[Local]
                /\ r.sent = <<>>
                /\ r.raised = <<>>
                /\ r.taken = 1

\* C14 witness: Local is a Candidate of the cluster that has sent its
\* RequestVote calls, and an awaitable call has been timed out and popped, so
\* its id is unknown to the register.
C14_Witness ==
    /\ config = "cluster" /\ raft[Local].State = "C"
    /\ \E id \in DOMAIN ACalls :
          id \notin ACallRegister /\ ACalls[id].Result = TimeoutError

\* The datagrams on_recv sends when d alone is pending on socket s
SentFor(s, d) == on_recv(RecvCtx, s, <<d>>).sent

IsRequest(d) == d.frame.json /\ d.frame.jsonrpc = "2.0" /\ d.frame.method # None

\* C15: every inbound datagram yields at most one outbound datagram: a
\* request frame at most one (its reply), a result or error frame (or any
\* frame that is not a request) none.
C15_AtMostOneReply ==
    \A s \in Sockets : \A i \in DOMAIN Datagrams :
        LET d == Datagrams[i]
        IN  /\ Len(SentFor(s, d)) <= 1
            /\ ~IsRequest(d) => SentFor(s, d) = <<>>

\* C15 witness: Local is a Candidate of the cluster whose RequestVote calls
\* are out (a granting reply would give it the majority), its methods are
\* bound, and an awaitable call is registered.
C15_Witness ==
    /\ config = "cluster" /\ raft[Local].State = "C" /\ IdSeq > 2
    /\ "RequestVote" \in RPCMethods
    /\ \E id \in ACallRegister : ~ACalls[id].ReplyEvent

\* C16: the primary socket is the single egress: every datagram on_recv sends
\* (result replies and error replies), for a request received on any
\* listening socket, goes out on the primary socket.
C16_PrimarySocketEgress ==
    \A s \in Sockets : \A i \in DOMAIN Datagrams :
        \A j \in DOMAIN SentFor(s, Datagrams[i]) :
            SentFor(s, Datagrams[i])[j].sock = PrimarySocket

\* C17: when processing a datagram raises (method not found, an exception in
\* a handler, a failed assertion, a datagram that is not JSON), one error
\* frame carrying the request's id goes back to the sender if and only if
\* the datagram carried a method; a datagram without a method never causes a
\* send.
C17_ErrorReplyIffRequest ==
    \A s \in Sockets : \A i \in DOMAIN Datagrams :
        LET d == Datagrams[i]
            r == on_recv(RecvCtx, s, <<d>>)
            replied == /\ Len(r.sent) = 1
                       /\ r.sent[1].to = d.from
                       /\ r.sent[1].frame.error # Null
                       /\ r.sent[1].frame.result = Null
                       /\ r.sent[1].frame.id = d.frame.id
        IN  /\ r.raised # <<>> => (replied <=> IsRequest(d))
            /\ ~IsRequest(d) => r.sent = <<>>

\* C17 witness: the methods are bound (a request for them raises TypeError)
\* and a cancelled call is still registered (a result for it trips the
\* assertion of ACall.send).
C17_Witness ==
    /\ "AppendEntries" \in RPCMethods
    /\ \E id \in ACallRegister : ACalls[id].Result = CancelledError

\* The RPC object of the peer p: nothing registered; it runs the same program
\* with the same methods bound.
PeerCtx(p) ==
    [reg |-> {}, acalls |-> NoACalls, svc |-> raft[p],
     sent |-> <<>>, raised |-> <<>>, taken |-> 0, returned |-> FALSE]

\* acall(n2, method, params) made by Local in the current state, with
\* reliable delivery: the request reaches the peer's socket ps, the peer's
\* on_recv answers from that socket (whose address is the one the request was
\* sent to), and the answer reaches Local's primary socket.
RoundTrip(ps, method, params) ==
    LET id == RequestId(method, IdSeq)
        r1 == rpc_acall(RecvCtx, IdSeq, "n2", method, params, NoTimeout, now)
        req == r1.sent[Len(r1.sent)]
        p == on_recv(PeerCtx("n2"), ps, <<Dgram(Local, Wire(req.frame))>>)
        r2 == IF p.sent = <<>> THEN r1
              ELSE on_recv(r1, PrimarySocket,
                           <<Dgram(req.to, Wire(p.sent[1].frame))>>)
    IN  [id |-> id, reg |-> r2.reg, raised |-> r2.raised,
         replies |-> Len(p.sent), awaiter |-> acall_wait(r2.acalls[id])]

\* The method names no node registers (Ping is built in), and those the
\* service registers once RPC.bind has run
MethodNames == {"Nope", "AppendEntries", "RequestVote"}

\* C18: an acall for a method the peer has not registered (and that is not
\* Ping) completes the caller with an RPC error whose code is -32601 and
\* whose data is the method name, and the caller's register no longer holds
\* the call.
C18_MethodNotFound ==
    \A ps \in Sockets, method \in MethodNames \ RPCMethods,
       params \in {Null, Str("v")} :
        LET t == RoundTrip(ps, method, params)
        IN  /\ t.awaiter.outcome = "RPCError"
            /\ t.awaiter.value.code = -32601
            /\ t.awaiter.value.data = Str(method)
            /\ t.id \notin t.reg
            /\ t.raised = <<>>

\* C18 witness: an acall for "Nope" has been completed by the peer's
\* "Method not found" error frame and is no longer registered, while another
\* call is still registered.
C18_Witness ==
    /\ \E id \in DOMAIN ACalls :
          /\ id.method = "Nope" /\ id \notin ACallRegister
          /\ acall_wait(ACalls[id]) =
                [outcome |-> "RPCError", value |-> MethodNotFound("Nope")]
    /\ ACallRegister # {}

\* The JSON values Ping is called with
JsonValues ==
    {Null, JsonFalse, JsonZero, JsonEmptyStr, JsonEmptyList, Str("v"),
     Str("Pong"), [t |-> "bool", b |-> TRUE], [t |-> "number", n |-> 1]}

\* C19: Ping round trip: acall(peer, "Ping", v) completes with "Pong" when v
\* is null and with v itself for every other JSON value v (false, 0, the
\* empty string and the empty list included); the call is then no longer
\* registered.
C19_PingRoundTrip ==
    \A ps \in Sockets, v \in JsonValues :
        LET t == RoundTrip(ps, "Ping", v)
        IN  /\ t.awaiter =
                  [outcome |-> "return",
                   value |-> IF v = Null THEN Str("Pong") ELSE v]
            /\ t.id \notin t.reg
            /\ t.raised = <<>>

\* C19 witness: an acall of Ping has returned the peer's result and is no
\* longer registered, while another call is still registered.
C19_Witness ==
    /\ \E id \in DOMAIN ACalls :
          /\ id.method = "Ping" /\ id \notin ACallRegister
          /\ acall_wait(ACalls[id]) = [outcome |-> "return", value |-> Str("v")]
    /\ ACallRegister # {}

\* C20: the id call makes next is new: its integer is greater than that of
\* every id held by a call record, so it is in neither the register nor the
\* records; and in every step the counter only grows, every record added in
\* the step carrying an integer the counter had not passed before the step.
C20_IdsUnique ==
    /\ [](\A m \in {"Ping", "Nope"} \cup MethodNames :
            LET id == RequestId(m, IdSeq)
            IN  /\ id \notin ACallRegister
                /\ id \notin DOMAIN ACalls
                /\ \A old \in DOMAIN ACalls : old.seq < id.seq)
    /\ [][/\ IdSeq' >= IdSeq
          /\ \A id \in DOMAIN ACalls' \ DOMAIN ACalls :
                id.seq >= IdSeq /\ id.seq < IdSeq']_vars

\* C20 witness: two awaitable calls of the same method are on record under
\* different ids, the earlier one completed and popped, the later one still
\* registered.
C20_Witness ==
    \E a, b \in DOMAIN ACalls :
        /\ a.method = b.method /\ a.seq < b.seq
        /\ a \notin ACallRegister /\ ACalls[a].ReplyEvent
        /\ b \in ACallRegister

\* The datagrams that are dropped: not JSON, or jsonrpc other than "2.0"
BadDatagrams == {Dgram("n2", GarbageFrame), Dgram("n2", BadVersionFrame)}

\* C23: on one read-readiness event on_recv takes every pending datagram: with
\* a datagram that is not JSON, or whose jsonrpc is not "2.0", at the head of
\* the queue and a datagram d behind it, both are taken in the one
\* invocation, nothing is sent for the bad one, and d has the effect it has
\* when it is alone in the queue.
C23_DrainsPastBadDatagram ==
    \A s \in Sockets, bad \in BadDatagrams : \A i \in DOMAIN Datagrams :
        LET d == Datagrams[i]
            alone == on_recv(RecvCtx, s, <<d>>)
            r == on_recv(RecvCtx, s, <<bad, d>>)
        IN  /\ r.taken = 2
            /\ r.sent = alone.sent
            /\ r.reg = alone.reg
            /\ r.acalls = alone.acalls

\* The states node n is left in by each handler that can run next: the
\* callback of a timer that is armed, initialize, and the four RPC handlers
\* for every request or reply a peer (known or not) can send.
HandlerResults(n) ==
    (IF raft[n].ElectionTimer THEN {on_election_timeout(Ctx(n)).s} ELSE {})
    \cup (IF raft[n].HeartBeatTimer THEN {on_heartbeat_timeout(Ctx(n)).s} ELSE {})
    \cup (IF raft[n].State = "?" THEN {enter_state_follower(Ctx(n)).s} ELSE {})
    \cup {append_entries_server(Ctx(n), term, a).s :
             term \in ReplyTerms, a \in Node \ {n}}
    \cup {request_vote_server(Ctx(n), term, a).s :
             term \in ReplyTerms, a \in Node \ {n}}
    \cup {append_entries_result(Ctx(n), a, a).s : a \in Node \ {n}}
    \cup UNION {{request_vote_result(Ctx(n), a, term, flag, a).s :
                    term \in ReplyTerms, a \in Node \ {n}} : flag \in BOOLEAN}

\* C13 as stated: in every reachable state a Leader has its election timer
\* stopped and its heartbeat timer armed, and a Follower has its heartbeat
\* timer stopped and its election timer armed.
C13_TimersMatchRole ==
    \A n \in Node : TimersMatchRole(raft[n])

\* C13 amended: the timers match the role in every reachable state of a node
\* on which finalize has not run, and in the state every handler that can run
\* next on such a node leaves it in.
C13_TimersMatchRoleUntilFinalize ==
    \A n \in Node :
        ~raft[n].Finalized =>
            /\ TimersMatchRole(raft[n])
            /\ \A s \in HandlerResults(n) : TimersMatchRole(s)

\* C13 witness: in the cluster, with no node shut down, a node is Leader and
\* another, which has been Candidate, is Follower again.
C13_Witness ==
    /\ config = "cluster"
    /\ \E a, b \in Node :
          /\ ~raft[a].Finalized /\ ~raft[b].Finalized
          /\ raft[a].State = "L" /\ raft[a].HeartBeatTimer
          /\ raft[b].State = "F" /\ raft[b].votedFor = a /\ raft[b].ElectionTimer
          /\ raft[b].Peers[None].VoteGranted

====
